---- MODULE Spec2Model ----
(***************************************************************************)
(* Number Bot (app.py): the deterministic "math brain" behind POST /chat.  *)
(*                                                                         *)
(* The classifier (an external language model) returns an untrusted JSON   *)
(* record; apply_math_logic overrides it with values computed by           *)
(* safe_eval_expression, build_count_sequence and estimate_count_time.     *)
(*                                                                         *)
(* Python values are tagged records (field k is the Python type).  A str   *)
(* is a sequence of chunks: a chunk is either one whitespace character or  *)
(* a piece of text that neither starts nor ends with whitespace, so that   *)
(* str.strip() is computed on the chunks.  A float is an exact rational    *)
(* n/d in lowest terms; the inputs are chosen so that every float the      *)
(* code computes on them is exactly that rational where it matters         *)
(* (is_integer, round, comparisons).                                       *)
(***************************************************************************)
EXTENDS Integers, Sequences, FiniteSets, TLC

VARIABLES pc, user_text, brain, data, response, arg, ret

vars == <<pc, user_text, brain, data, response, arg, ret>>

-----------------------------------------------------------------------------
(* Python values *)

PyNone == [k |-> "none"]

PyBool(b) == [k |-> "bool", n |-> IF b THEN 1 ELSE 0, d |-> 1]

PyInt(n) == [k |-> "int", n |-> n, d |-> 1]

Abs(x) == IF x < 0 THEN -x ELSE x

Max(a, b) == IF a >= b THEN a ELSE b

RECURSIVE GCD(_, _)
GCD(a, b) == IF b = 0 THEN a ELSE GCD(b, a % b)

\* the float whose value is the rational n/d (d # 0), in lowest terms
PyFloat(n, d) ==
  LET g == GCD(Abs(n), Abs(d))
      s == IF d < 0 THEN -1 ELSE 1
  IN  [k |-> "float", n |-> (s * n) \div g, d |-> (s * d) \div g]

PyStr(chunks) == [k |-> "str", s |-> chunks]

PyList(items) == [k |-> "list", v |-> items]

PyDict(m) == [k |-> "dict", m |-> m]

\* an exception propagating out of a call
Raise(e) == [k |-> "raise", e |-> e]

IsNumber(v) == v.k \in {"bool", "int", "float"}

\* float.is_integer()
is_integer(v) == v.d = 1

\* round(n/d) for d > 0: Python 3 rounds a tie to the even neighbour
round(n, d) ==
  LET q == n \div d
      r == n % d
  IN  IF 2 * r < d THEN q
      ELSE IF 2 * r > d THEN q + 1
      ELSE IF q % 2 = 0 THEN q ELSE q + 1

-----------------------------------------------------------------------------
(* SAFE EVAL FOR MATH *)

\* ast nodes, as ast.parse(expr, mode="eval") builds them
Expression(body) == [t |-> "Expression", body |-> body]

Constant(value) == [t |-> "Constant", value |-> value]

BinOp(left, op, right) == [t |-> "BinOp", left |-> left, op |-> op, right |-> right]

UnaryOp(op, operand) == [t |-> "UnaryOp", op |-> op, operand |-> operand]

Name(id) == [t |-> "Name", id |-> id]

Call(func, args) == [t |-> "Call", func |-> func, args |-> args]

Attribute(value, attr) == [t |-> "Attribute", value |-> value, attr |-> attr]

Compare(left, op, right) == [t |-> "Compare", left |-> left, ops |-> <<op>>, comparators |-> <<right>>]

\* isinstance(v, classes): bool is a subclass of int
isinstance(v, classes) == v.k \in classes \/ (v.k = "bool" /\ "int" \in classes)

\* the type of the result of an arithmetic operator: float if an operand is
\* a float, int otherwise (a bool operand counts as an int)
Number(isFloat, n, d) == IF isFloat THEN PyFloat(n, d) ELSE PyInt(n \div d)

AnyFloat(a, b) == a.k = "float" \/ b.k = "float"

RECURSIVE Power(_, _)
Power(b, e) == IF e = 0 THEN 1 ELSE b * Power(b, e - 1)

operator_add(a, b) == Number(AnyFloat(a, b), a.n * b.d + b.n * a.d, a.d * b.d)

operator_sub(a, b) == Number(AnyFloat(a, b), a.n * b.d - b.n * a.d, a.d * b.d)

operator_mul(a, b) == Number(AnyFloat(a, b), a.n * b.n, a.d * b.d)

operator_truediv(a, b) ==
  IF b.n = 0 THEN Raise("ZeroDivisionError")
  ELSE PyFloat(a.n * b.d, a.d * b.n)

\* floor(a / b) for b # 0
FloorQuotient(a, b) ==
  LET num == a.n * b.d
      den == a.d * b.n
  IN  IF den < 0 THEN (-num) \div (-den) ELSE num \div den

operator_floordiv(a, b) ==
  IF b.n = 0 THEN Raise("ZeroDivisionError")
  ELSE Number(AnyFloat(a, b), FloorQuotient(a, b), 1)

\* a - b * floor(a / b): the result has the sign of the divisor
operator_mod(a, b) ==
  IF b.n = 0 THEN Raise("ZeroDivisionError")
  ELSE LET q == FloorQuotient(a, b)
       IN  Number(AnyFloat(a, b), a.n * b.d - q * b.n * a.d, a.d * b.d)

\* a ** b for a whole exponent b; a non-whole exponent is outside the model
\* (no arm of the CASE takes it)
operator_pow(a, b) ==
  CASE b.d = 1 /\ b.n >= 0 ->
         Number(AnyFloat(a, b), Power(a.n, b.n), Power(a.d, b.n))
    [] b.d = 1 /\ b.n < 0 /\ a.n = 0 -> Raise("ZeroDivisionError")
    [] b.d = 1 /\ b.n < 0 /\ a.n # 0 ->
         PyFloat(Power(a.d, -b.n), Power(a.n, -b.n))

operator_pos(a) == Number(a.k = "float", a.n, a.d)

operator_neg(a) == Number(a.k = "float", -a.n, a.d)

ALLOWED_BINOPS == {"Add", "Sub", "Mult", "Div", "FloorDiv", "Mod", "Pow"}

ALLOWED_UNARY == {"UAdd", "USub"}

ApplyBinop(op, left, right) ==
  CASE op = "Add" -> operator_add(left, right)
    [] op = "Sub" -> operator_sub(left, right)
    [] op = "Mult" -> operator_mul(left, right)
    [] op = "Div" -> operator_truediv(left, right)
    [] op = "FloorDiv" -> operator_floordiv(left, right)
    [] op = "Mod" -> operator_mod(left, right)
    [] op = "Pow" -> operator_pow(left, right)

ApplyUnary(op, operand) ==
  CASE op = "UAdd" -> operator_pos(operand)
    [] op = "USub" -> operator_neg(operand)

\* the ast.Constant arm of _eval
EvalConstant(n) ==
  IF isinstance(n.value, {"int", "float"}) THEN n.value
  ELSE Raise("ValueError")

RECURSIVE _eval(_)
_eval(n) ==
  IF n.t = "Expression" THEN _eval(n.body)
  ELSE IF n.t = "Constant" THEN EvalConstant(n)
  ELSE IF n.t = "BinOp" THEN
    IF n.op \notin ALLOWED_BINOPS THEN Raise("ValueError")
    ELSE LET left == _eval(n.left)
         IN  IF left.k = "raise" THEN left
             ELSE LET right == _eval(n.right)
                  IN  IF right.k = "raise" THEN right
                      ELSE ApplyBinop(n.op, left, right)
  ELSE IF n.t = "UnaryOp" THEN
    IF n.op \notin ALLOWED_UNARY THEN Raise("ValueError")
    ELSE LET operand == _eval(n.operand)
         IN  IF operand.k = "raise" THEN operand
             ELSE ApplyUnary(n.op, operand)
  ELSE Raise("ValueError")

-----------------------------------------------------------------------------
(* str, dict and formatting operations the handlers use *)

\* bool(v)
Truthy(v) ==
  CASE v.k = "none" -> FALSE
    [] v.k \in {"bool", "int", "float"} -> v.n # 0
    [] v.k = "str" -> Len(v.s) > 0
    [] v.k = "list" -> Len(v.v) > 0
    [] v.k = "dict" -> DOMAIN v.m # {}

\* a or b
Or(a, b) == IF Truthy(a) THEN a ELSE b

\* m.get(key), on the mapping of a dict
get(m, key) == IF key \in DOMAIN m THEN m[key] ELSE PyNone

\* m[key] = v
Put(m, key, v) == [x \in DOMAIN m \cup {key} |-> IF x = key THEN v ELSE m[x]]

\* m.setdefault(key, v)
setdefault(m, key, v) == IF key \in DOMAIN m THEN m ELSE Put(m, key, v)

Whitespace == {" ", "\t", "\n"}

RECURSIVE lstrip(_)
lstrip(c) == IF c # <<>> /\ Head(c) \in Whitespace THEN lstrip(Tail(c)) ELSE c

RECURSIVE rstrip(_)
rstrip(c) ==
  IF c # <<>> /\ c[Len(c)] \in Whitespace THEN rstrip(SubSeq(c, 1, Len(c) - 1)) ELSE c

\* s.strip()
strip(s) == PyStr(rstrip(lstrip(s.s)))

\* s.upper(), chunk by chunk, for the words the classifier is given
UpperChunk(c) ==
  CASE c = "calculate" -> "CALCULATE"
    [] c = "Calculate" -> "CALCULATE"
    [] c = "count" -> "COUNT"
    [] c = "Count" -> "COUNT"
    [] c = "small_talk" -> "SMALL_TALK"
    [] c \in {"CALCULATE", "COUNT", "SMALL_TALK", "GREETING"} \cup Whitespace -> c

upper(s) == PyStr([i \in DOMAIN s.s |-> UpperChunk(s.s[i])])

\* the characters of a str, as one string
RECURSIVE Join(_)
Join(c) == IF c = <<>> THEN "" ELSE Head(c) \o Join(Tail(c))

\* the str whose characters are the string t
MkStr(t) == PyStr(IF t = "" THEN <<>> ELSE <<t>>)

\* sep.join(parts), parts a sequence of strings
RECURSIVE JoinWith(_, _)
JoinWith(sep, parts) ==
  IF parts = <<>> THEN ""
  ELSE IF Len(parts) = 1 THEN parts[1]
  ELSE parts[1] \o sep \o JoinWith(sep, Tail(parts))

\* the last three digits of a group, zero-padded
Pad3(n) ==
  IF n < 10 THEN "00" \o ToString(n)
  ELSE IF n < 100 THEN "0" \o ToString(n)
  ELSE ToString(n)

RECURSIVE GroupedNat(_)
GroupedNat(n) ==
  IF n < 1000 THEN ToString(n)
  ELSE GroupedNat(n \div 1000) \o "," \o Pad3(n % 1000)

\* f"{n:,}"
Grouped(n) == IF n < 0 THEN "-" \o GroupedNat(-n) ELSE GroupedNat(n)

\* the fraction digits f > 0 of "{:.4f}" without their trailing zeros
RECURSIVE StripZeros(_)
StripZeros(f) == IF f % 10 = 0 THEN StripZeros(f \div 10) ELSE f

\* leading zeros of the fraction digits f, written on `width` places
RECURSIVE LeadingZeros(_, _)
LeadingZeros(f, width) ==
  IF width = 0 \/ f >= Power(10, width - 1) THEN ""
  ELSE "0" \o LeadingZeros(f, width - 1)

\* f"{v:.4f}".rstrip("0").rstrip("."), v a float
Fixed4(v) ==
  LET scaled == round(Abs(v.n) * 10000, v.d)
      whole == scaled \div 10000
      frac == scaled % 10000
      sign == IF v.n < 0 THEN "-" ELSE ""
  IN  IF frac = 0 THEN sign \o ToString(whole)
      ELSE sign \o ToString(whole) \o "." \o LeadingZeros(frac, 4)
             \o ToString(StripZeros(frac))

\* the integers a decimal string of the model may spell
DecimalRange == -1000..1000

\* int(v)
py_int(v) ==
  CASE v.k \in {"bool", "int"} -> PyInt(v.n)
    [] v.k = "float" -> PyInt(IF v.n >= 0 THEN v.n \div v.d ELSE -((-v.n) \div v.d))
    [] v.k = "str" ->
         LET t == Join(strip(v).s)
         IN  IF \E i \in DecimalRange : ToString(i) = t
               THEN PyInt(CHOOSE i \in DecimalRange : ToString(i) = t)
               ELSE Raise("ValueError")
    [] v.k \in {"none", "list", "dict"} -> Raise("TypeError")

IsRaise(r) == "k" \in DOMAIN r /\ r.k = "raise"

\* except Exception: every error of the model is an Exception
Exception ==
  {"SyntaxError", "ValueError", "ZeroDivisionError", "TypeError", "OverflowError"}

\* variant: "except (SyntaxError, ValueError)" in place of "except Exception"
CaughtParseErrorsOnly(r) == IsRaise(r) /\ r.e \in {"SyntaxError", "ValueError"}

Caught(r) == IsRaise(r) /\ r.e \in Exception

\* ast.parse(expr, mode="eval") on the expressions the classifier is given
ast_parse(expr) ==
  LET src == Join(expr.s)
  IN
    CASE src = "2 + 2" ->
         Expression(BinOp(Constant(PyInt(2)), "Add", Constant(PyInt(2))))
      [] src = "900 + 500 / 2" ->
         Expression(BinOp(Constant(PyInt(900)), "Add", BinOp(Constant(PyInt(500)), "Div", Constant(PyInt(2)))))
      [] src = "12 * 3 - 4" ->
         Expression(BinOp(BinOp(Constant(PyInt(12)), "Mult", Constant(PyInt(3))), "Sub", Constant(PyInt(4))))
      [] src = "5 / 0" ->
         Expression(BinOp(Constant(PyInt(5)), "Div", Constant(PyInt(0))))
      [] src = "7 % 0" ->
         Expression(BinOp(Constant(PyInt(7)), "Mod", Constant(PyInt(0))))
      [] src = "7 // 2" ->
         Expression(BinOp(Constant(PyInt(7)), "FloorDiv", Constant(PyInt(2))))
      [] src = "-7 // 2" ->
         Expression(BinOp(UnaryOp("USub", Constant(PyInt(7))), "FloorDiv", Constant(PyInt(2))))
      [] src = "2 ** 10" ->
         Expression(BinOp(Constant(PyInt(2)), "Pow", Constant(PyInt(10))))
      [] src = "2 ** -1" ->
         Expression(BinOp(Constant(PyInt(2)), "Pow", UnaryOp("USub", Constant(PyInt(1)))))
      [] src = "10 / 4" ->
         Expression(BinOp(Constant(PyInt(10)), "Div", Constant(PyInt(4))))
      [] src = "1 / 3" ->
         Expression(BinOp(Constant(PyInt(1)), "Div", Constant(PyInt(3))))
      [] src = "1 / 32" ->
         Expression(BinOp(Constant(PyInt(1)), "Div", Constant(PyInt(32))))
      [] src = "1000000 * 3" ->
         Expression(BinOp(Constant(PyInt(1000000)), "Mult", Constant(PyInt(3))))
      [] src = "-4000 - 1" ->
         Expression(BinOp(UnaryOp("USub", Constant(PyInt(4000))), "Sub", Constant(PyInt(1))))
      [] src = "2.5 * 2" ->
         Expression(BinOp(Constant(PyFloat(5, 2)), "Mult", Constant(PyInt(2))))
      [] src = "__import__('os')" ->
         Expression(Call(Name("__import__"), <<Constant(PyStr(<<"os">>))>>))
      [] src = "open('x')" ->
         Expression(Call(Name("open"), <<Constant(PyStr(<<"x">>))>>))
      [] src = "True + 1" ->
         Expression(BinOp(Constant(PyBool(TRUE)), "Add", Constant(PyInt(1))))
      [] src = "True" ->
         Expression(Constant(PyBool(TRUE)))
      [] src = "'a' * 3" ->
         Expression(BinOp(Constant(PyStr(<<"a">>)), "Mult", Constant(PyInt(3))))
      [] src = "1 < 2" ->
         Expression(Compare(Constant(PyInt(1)), "Lt", Constant(PyInt(2))))
      [] src = "x + 1" ->
         Expression(BinOp(Name("x"), "Add", Constant(PyInt(1))))
      [] src = "1 | 2" ->
         Expression(BinOp(Constant(PyInt(1)), "BitOr", Constant(PyInt(2))))
      [] src = "~1" ->
         Expression(UnaryOp("Invert", Constant(PyInt(1))))
      [] src = "2 +" ->
         Raise("SyntaxError")
      [] src = "two plus two" ->
         Raise("SyntaxError")

safe_eval_expression(expr) ==
  LET node == ast_parse(expr)
  IN  IF IsRaise(node) THEN node ELSE _eval(node)

-----------------------------------------------------------------------------
(* COUNTING (JUMPS + TIME) *)

\* (step_size, sequence_list, is_impossible)
\* variant: ten multiples of the step, range(1, 11), before n is appended
build_count_sequence_ten_multiples(n) ==
  IF n <= 0 THEN <<0, <<>>, TRUE>>
  ELSE IF n <= 10 THEN <<1, [i \in 1..n |-> i], FALSE>>
  ELSE LET step == Max(n \div 10, 1)
           seq == [i \in 1..10 |-> step * i]
       IN  <<step, IF seq[Len(seq)] # n THEN Append(seq, n) ELSE seq, FALSE>>

\* variant: n is appended only when it is not a multiple of 10
build_count_sequence_round_targets(n) ==
  IF n <= 0 THEN <<0, <<>>, TRUE>>
  ELSE IF n <= 10 THEN <<1, [i \in 1..n |-> i], FALSE>>
  ELSE LET step == Max(n \div 10, 1)
           seq == [i \in 1..9 |-> step * i]
       IN  <<step, IF n % 10 # 0 THEN Append(seq, n) ELSE seq, FALSE>>

build_count_sequence(n) ==
  IF n <= 0 THEN <<0, <<>>, TRUE>>
  ELSE IF n <= 10 THEN <<1, [i \in 1..n |-> i], FALSE>>
  ELSE LET step == Max(n \div 10, 1)
           seq == [i \in 1..9 |-> step * i]
       IN  <<step, IF seq[Len(seq)] # n THEN Append(seq, n) ELSE seq, FALSE>>

SecondsPerMinute == 60
MinutesPerHour == 60
HoursPerDay == 24
DaysPerYear == 365

\* variant: "seconds <= 60" in place of "seconds <= 120"
estimate_count_time_minutes_from_60(num) ==
  LET seconds == num
      perHour == SecondsPerMinute * MinutesPerHour
      perDay == perHour * HoursPerDay
      perYear == perDay * DaysPerYear
      years == seconds \div perYear
  IN  IF seconds <= 60
        THEN <<seconds, "about " \o ToString(seconds) \o " seconds">>
      ELSE IF seconds \div SecondsPerMinute < 60
        THEN <<seconds, "about " \o ToString(round(seconds, SecondsPerMinute)) \o " minutes">>
      ELSE IF seconds \div perHour < 48
        THEN <<seconds, "about " \o ToString(round(seconds, perHour)) \o " hours">>
      ELSE IF seconds \div perDay < 365 * 2
        THEN <<seconds, "about " \o ToString(round(seconds, perDay)) \o " days">>
      ELSE IF years < 1000
        THEN <<seconds, "about " \o ToString(round(seconds, perYear)) \o " years">>
      ELSE IF years \div 1000 < 1000
        THEN <<seconds, "about " \o ToString(round(years, 1000)) \o " thousand years">>
      ELSE IF years \div 1000000 < 1000
        THEN <<seconds, "about " \o ToString(round(years, 1000000)) \o " million years">>
      ELSE <<seconds, "longer than the age of the universe">>

\* (seconds, human_readable_text); the quotients seconds / 60.0, / 60.0,
\* / 24.0, / 365.0 are kept as the exact fractions seconds / den, and a
\* comparison "q < K" with K an integer is made on the floor of q.
estimate_count_time(num) ==
  LET seconds == num
      perHour == SecondsPerMinute * MinutesPerHour
      perDay == perHour * HoursPerDay
      perYear == perDay * DaysPerYear
      years == seconds \div perYear
  IN  IF seconds <= 120
        THEN <<seconds, "about " \o ToString(seconds) \o " seconds">>
      ELSE IF seconds \div SecondsPerMinute < 60
        THEN <<seconds, "about " \o ToString(round(seconds, SecondsPerMinute)) \o " minutes">>
      ELSE IF seconds \div perHour < 48
        THEN <<seconds, "about " \o ToString(round(seconds, perHour)) \o " hours">>
      ELSE IF seconds \div perDay < 365 * 2
        THEN <<seconds, "about " \o ToString(round(seconds, perDay)) \o " days">>
      ELSE IF years < 1000
        THEN <<seconds, "about " \o ToString(round(seconds, perYear)) \o " years">>
      ELSE IF years \div 1000 < 1000
        THEN <<seconds, "about " \o ToString(round(years, 1000)) \o " thousand years">>
      ELSE IF years \div 1000000 < 1000
        THEN <<seconds, "about " \o ToString(round(years, 1000000)) \o " million years">>
      ELSE <<seconds, "longer than the age of the universe">>

-----------------------------------------------------------------------------
(* apply_math_logic *)

\* the setdefault calls on logic, in the order of the code
Defaulted(logic) ==
  LET l1 == setdefault(logic, "target_number", PyNone)
      l2 == setdefault(l1, "is_impossible", PyBool(FALSE))
      l3 == setdefault(l2, "step_size", PyNone)
      l4 == setdefault(l3, "unit", PyNone)
      l5 == setdefault(l4, "sequence", PyList(<<>>))
      l6 == setdefault(l5, "time_estimate_seconds", PyNone)
      l7 == setdefault(l6, "time_estimate_text", PyNone)
  IN  setdefault(l7, "visual_aid", PyNone)

\* CALCULATE without an expression, or with one that safe_eval_expression
\* fails on: the same four assignments in both places
CalculateGaveUp(d, logic) ==
  LET logic1 == Put(Put(logic, "is_impossible", PyBool(TRUE)), "sequence", PyList(<<>>))
      d1 == Put(Put(d, "screen", MkStr("I couldn't understand that math problem.")),
                "text",
                MkStr("I couldn't quite figure out that math problem, but we can try another one!"))
  IN  PyDict(Put(d1, "_math_logic", PyDict(logic1)))

\* variant: the value is kept as evaluated, a whole float stays a float
CalculateAnswerUncoerced(d, logic, spoken_problem, evaluated) ==
  LET result == evaluated
      logic1 == Put(Put(Put(logic, "target_number", result),
                        "is_impossible", PyBool(FALSE)),
                    "sequence", PyList(<<result>>))
      screen == IF isinstance(result, {"int"}) THEN Grouped(result.n) ELSE Fixed4(result)
      text == "You asked what " \o Join(spoken_problem.s) \o " is. The answer is "
                \o screen \o "."
      d1 == Put(Put(d, "screen", MkStr(screen)), "text", MkStr(text))
  IN  PyDict(Put(d1, "_math_logic", PyDict(logic1)))

\* CALCULATE with the value safe_eval_expression returned
CalculateAnswer(d, logic, spoken_problem, evaluated) ==
  LET result == IF isinstance(evaluated, {"float"}) /\ is_integer(evaluated)
                  THEN PyInt(evaluated.n)
                  ELSE evaluated
      logic1 == Put(Put(Put(logic, "target_number", result),
                        "is_impossible", PyBool(FALSE)),
                    "sequence", PyList(<<result>>))
      screen == IF isinstance(result, {"int"}) THEN Grouped(result.n) ELSE Fixed4(result)
      text == "You asked what " \o Join(spoken_problem.s) \o " is. The answer is "
                \o screen \o "."
      d1 == Put(Put(d, "screen", MkStr(screen)), "text", MkStr(text))
  IN  PyDict(Put(d1, "_math_logic", PyDict(logic1)))

Calculate(d, logic, transcript) ==
  LET expr == strip(Or(get(logic, "expression"), PyStr(<<>>)))
      spoken_problem == strip(Or(get(logic, "spoken_problem"), transcript))
  IN  IF ~Truthy(expr) THEN CalculateGaveUp(d, logic)
      ELSE LET result == safe_eval_expression(expr)
           IN  IF Caught(result) THEN CalculateGaveUp(d, logic)
               ELSE IF IsRaise(result) THEN result
               ELSE CalculateAnswer(d, logic, spoken_problem, result)

\* COUNT without a usable target: no narration
CountGaveUp(d, logic) ==
  LET logic1 == Put(Put(logic, "is_impossible", PyBool(TRUE)), "sequence", PyList(<<>>))
  IN  PyDict(Put(Put(d, "screen", PyStr(<<>>)), "_math_logic", PyDict(logic1)))

\* variant: step_size and the time estimate are set only when the
\* classifier gave none (None), the narration being built from them
CountAnswerKeepsClaims(d, logic, n) ==
  LET plan == build_count_sequence(n)
      seq == plan[2]
      estimate == estimate_count_time(n)
      keep(l, f, v) == IF get(l, f) = PyNone THEN Put(l, f, v) ELSE l
      logic1 == keep(keep(Put(Put(Put(keep(logic,
                  "step_size", PyInt(plan[1])),
                  "sequence", PyList([i \in DOMAIN seq |-> PyInt(seq[i])])),
                  "is_impossible", PyBool(plan[3])),
                  "target_number", PyInt(n)),
                  "time_estimate_seconds", PyInt(estimate[1])),
                  "time_estimate_text", MkStr(estimate[2]))
      digits_for_voice ==
        [i \in DOMAIN seq |-> IF n <= 10 THEN ToString(seq[i]) ELSE Grouped(seq[i])]
      screen == JoinWith(", ", digits_for_voice)
      unit == get(logic1, "unit")
      target_digits == Grouped(n)
      plural_unit == IF n = 1 THEN Join(unit.s) ELSE Join(unit.s) \o "s"
      intro == IF Truthy(unit)
                 THEN "Let's jump up to " \o target_digits \o " " \o plural_unit \o "."
                 ELSE "Let's jump up to " \o target_digits \o "."
      jumps_line == " Our ten jumps are: " \o JoinWith(", ", digits_for_voice) \o "."
      time_line == " If you counted by ones, it would take " \o estimate[2] \o "."
      d1 == Put(Put(d, "screen", MkStr(screen)), "text", MkStr(intro \o jumps_line \o time_line))
  IN  PyDict(Put(d1, "_math_logic", PyDict(logic1)))

\* COUNT up to the integer n >= 1
CountAnswer(d, logic, n) ==
  LET plan == build_count_sequence(n)
      seq == plan[2]
      estimate == estimate_count_time(n)
      logic1 == Put(Put(Put(Put(Put(Put(logic,
                  "step_size", PyInt(plan[1])),
                  "sequence", PyList([i \in DOMAIN seq |-> PyInt(seq[i])])),
                  "is_impossible", PyBool(plan[3])),
                  "target_number", PyInt(n)),
                  "time_estimate_seconds", PyInt(estimate[1])),
                  "time_estimate_text", MkStr(estimate[2]))
      digits_for_voice ==
        [i \in DOMAIN seq |-> IF n <= 10 THEN ToString(seq[i]) ELSE Grouped(seq[i])]
      screen == JoinWith(", ", digits_for_voice)
      unit == get(logic1, "unit")
      target_digits == Grouped(n)
      plural_unit == IF n = 1 THEN Join(unit.s) ELSE Join(unit.s) \o "s"
      intro == IF Truthy(unit)
                 THEN "Let's jump up to " \o target_digits \o " " \o plural_unit \o "."
                 ELSE "Let's jump up to " \o target_digits \o "."
      jumps_line == " Our ten jumps are: " \o JoinWith(", ", digits_for_voice) \o "."
      time_line == " If you counted by ones, it would take " \o estimate[2] \o "."
      d1 == Put(Put(d, "screen", MkStr(screen)), "text", MkStr(intro \o jumps_line \o time_line))
  IN  PyDict(Put(d1, "_math_logic", PyDict(logic1)))

\* variant: "n < 0" in place of "n <= 0"
CountFromZero(d, logic) ==
  LET target == get(logic, "target_number")
      n == py_int(target)
  IN  IF Caught(n) THEN CountGaveUp(d, logic)
      ELSE IF IsRaise(n) THEN n
      ELSE IF n.n < 0 THEN CountGaveUp(d, logic)
      ELSE CountAnswer(d, logic, n.n)

Count(d, logic) ==
  LET target == get(logic, "target_number")
      n == py_int(target)
  IN  IF Caught(n) THEN CountGaveUp(d, logic)
      ELSE IF IsRaise(n) THEN n
      ELSE IF n.n <= 0 THEN CountGaveUp(d, logic)
      ELSE CountAnswer(d, logic, n.n)

\* the dict returned, None when the function ends without a return, or the
\* exception that leaves it
apply_math_logic(d, transcript) ==
  LET given == Or(get(d.m, "_math_logic"), PyDict(<<>>)).m
      intent == upper(Or(get(given, "intent"), PyStr(<<>>)))
      logic == Defaulted(given)
  IN  IF intent = PyStr(<<"CALCULATE">>) THEN Calculate(d.m, logic, transcript)
      ELSE IF intent = PyStr(<<"COUNT">>) THEN Count(d.m, logic)
      ELSE PyNone

-----------------------------------------------------------------------------
(* POST /chat: call_brain, apply_math_logic, the response *)

\* what the classifier may answer

Opt(key, vals) == {<<>>} \cup {key :> v : v \in vals}

MaxTarget == 130

\* target_number: integers, fractional and non-numeric values
TargetValues ==
  {PyInt(i) : i \in (-2..MaxTarget) \cup {47, 99, 100, 150, 1000, 3600, 99999, 1234567}}
    \cup {PyNone, PyBool(TRUE), PyFloat(479, 10), PyFloat(1, 2), PyFloat(-1, 2),
          PyFloat(-5, 2), PyFloat(12, 1),
          PyStr(<<"47">>), PyStr(<<"47.9">>), PyStr(<<"lots">>), PyStr(<<>>),
          PyList(<<PyInt(47)>>)}

ExpressionTexts ==
  {"2 + 2", "900 + 500 / 2", "12 * 3 - 4", "5 / 0", "7 % 0", "7 // 2", "-7 // 2",
   "2 ** 10", "2 ** -1", "10 / 4", "1 / 3", "1 / 32", "1000000 * 3", "-4000 - 1",
   "2.5 * 2", "__import__('os')", "open('x')", "True + 1", "True", "'a' * 3",
   "1 < 2", "x + 1", "1 | 2", "~1", "2 +", "two plus two"}

ExpressionValues ==
  {PyStr(<<t>>) : t \in ExpressionTexts}
    \cup {PyNone, PyStr(<<>>), PyStr(<<" ">>), PyStr(<<" ", "\t">>),
          PyStr(<<" ", "2 + 2", " ">>), PyStr(<<"\t", "5 / 0">>)}

SpokenValues ==
  {PyNone, PyStr(<<>>), PyStr(<<"two plus two">>), PyStr(<<" ", "two plus two", " ">>)}

\* what the classifier may claim in the fields the backend is to compute
Claimable ==
  [step_size |-> PyInt(7),
   sequence |-> PyList(<<PyInt(1), PyInt(2)>>),
   time_estimate_seconds |-> PyInt(99),
   time_estimate_text |-> MkStr("about a week")]

ClaimSets == {{}, DOMAIN Claimable} \cup {{f} : f \in DOMAIN Claimable}

Claims == {[f \in c |-> Claimable[f]] : c \in ClaimSets}

Hints ==
  {t @@ i : t \in Opt("target_number", {PyInt(5)}),
            i \in Opt("is_impossible", {PyBool(TRUE)})}

CalculateLogics ==
  {("intent" :> MkStr("CALCULATE")) @@ e @@ s @@ c @@ h :
     e \in Opt("expression", ExpressionValues),
     s \in Opt("spoken_problem", SpokenValues),
     c \in Claims, h \in Hints}

CountLogics ==
  {("intent" :> MkStr("COUNT")) @@ t @@ u @@ i @@ c :
     t \in Opt("target_number", TargetValues),
     u \in Opt("unit", {PyNone, MkStr("popsicle")}),
     i \in Opt("is_impossible", {PyBool(TRUE)}),
     c \in Claims}

\* the intent in another case: upper() makes it the same intent
OtherCaseLogics ==
  {("intent" :> MkStr("calculate")) @@ e : e \in Opt("expression", {MkStr("2 + 2")})}
    \cup {("intent" :> MkStr(w)) @@ t :
            w \in {"count", "Count"}, t \in Opt("target_number", {PyInt(47)})}
    \cup {("intent" :> MkStr("Calculate")) @@ ("expression" :> MkStr("5 / 0"))}

\* everything else: SMALL_TALK, an unknown, empty, null or missing intent
SmallTalkLogics ==
  {i @@ c @@ h @@ v :
     i \in Opt("intent", {MkStr("SMALL_TALK"), MkStr("small_talk"), MkStr("GREETING"),
                          PyStr(<<>>), PyNone}),
     c \in Claims, h \in Hints,
     v \in Opt("visual_aid", {MkStr("stars")})}

Logics == CalculateLogics \cup CountLogics \cup OtherCaseLogics \cup SmallTalkLogics

ClassifierText == MkStr("Let's figure that out together.")

ClassifierScreen == MkStr("7")

\* the JSON objects json.loads may return
ClassifierJson ==
  {[text |-> ClassifierText, screen |-> ClassifierScreen, visual_aid |-> v]
     @@ ("_math_logic" :> PyDict(l)) :
     v \in {PyNone, MkStr("apples")}, l \in Logics}
    \cup {[text |-> ClassifierText, screen |-> ClassifierScreen, visual_aid |-> PyNone] @@ m :
            m \in Opt("_math_logic", {PyNone})}

\* replies that are not JSON
RawReplies == {MkStr("Hi there!"), MkStr("{text: 4")}

\* the dict call_brain builds when json.loads fails on the reply raw
Fallback(raw) ==
  [text |-> raw, screen |-> PyStr(<<>>), visual_aid |-> PyNone]
    @@ ("_math_logic" :>
          PyDict([intent |-> MkStr("SMALL_TALK"),
                  target_number |-> PyNone,
                  is_impossible |-> PyBool(FALSE),
                  step_size |-> PyNone,
                  unit |-> PyNone,
                  sequence |-> PyList(<<>>),
                  time_estimate_seconds |-> PyNone,
                  time_estimate_text |-> PyNone,
                  visual_aid |-> PyNone]))

\* the text of the request, after transcription or body.get("text").strip()
UserTexts == {PyStr(<<>>), MkStr("what is two plus two")}

Init ==
  /\ pc = "start"
  /\ user_text \in UserTexts
  /\ brain = PyNone
  /\ data = PyNone
  /\ response = PyNone
  /\ arg = PyNone
  /\ ret = PyNone

\* if not user_text: 400
NoText ==
  /\ pc = "start"
  /\ ~Truthy(user_text)
  /\ response' = [status_code |-> 400,
                  content |-> PyDict([error |-> MkStr("No text captured from audio"),
                                      user_text |-> PyStr(<<>>)])]
  /\ pc' = "done"
  /\ UNCHANGED <<user_text, brain, data, arg, ret>>

\* data = call_brain(user_text)
CallBrain ==
  /\ pc = "start"
  /\ Truthy(user_text)
  /\ \/ \E json \in ClassifierJson : brain' = PyDict(json)
     \/ \E raw \in RawReplies : brain' = PyDict(Fallback(raw))
  /\ data' = brain'
  /\ pc' = "reconcile"
  /\ UNCHANGED <<user_text, response, arg, ret>>

\* data = apply_math_logic(data, user_text)
ApplyMathLogic ==
  /\ pc = "reconcile"
  /\ data' = apply_math_logic(data, user_text)
  /\ pc' = "respond"
  /\ UNCHANGED <<user_text, brain, response, arg, ret>>

\* data["user_text"] = user_text; return JSONResponse(data)
Respond ==
  /\ pc = "respond"
  /\ response' =
       IF data.k = "dict"
         THEN [status_code |-> 200, content |-> PyDict(Put(data.m, "user_text", user_text))]
         ELSE [status_code |-> 500, content |-> Raise("TypeError")]
  /\ pc' = "done"
  /\ UNCHANGED <<user_text, brain, data, arg, ret>>

Next == NoText \/ CallBrain \/ ApplyMathLogic \/ Respond

Spec == Init /\ [][Next]_vars

-----------------------------------------------------------------------------
(* build_count_sequence on its own *)

MaxPlanN == 260

PlanInputs == (-MaxPlanN..MaxPlanN) \cup {1000, 12345, 100000, 1000000}

Idle ==
  /\ user_text = PyNone
  /\ brain = PyNone
  /\ data = PyNone
  /\ response = PyNone

InitPlan ==
  /\ pc = "call"
  /\ arg \in PlanInputs
  /\ ret = <<>>
  /\ Idle

CallBuildCountSequence ==
  /\ pc = "call"
  /\ ret' = build_count_sequence(arg)
  /\ pc' = "returned"
  /\ UNCHANGED <<user_text, brain, data, response, arg>>

NextPlan == CallBuildCountSequence

SpecPlan == InitPlan /\ [][NextPlan]_vars

-----------------------------------------------------------------------------
(* estimate_count_time on its own *)

MaxDense == 3700
MaxHalfHours == 100
MaxHalfDays == 1470
MaxHalfYears == 12

HalfHour == 30 * 60
HalfDay == 12 * 3600
HalfYear == 365 * HalfDay

\* every n up to past the minutes row, then the ties and their neighbours
\* of the hours, days and years rows
EstimateInputs ==
  (1..MaxDense)
    \cup {HalfHour * j + o : j \in 1..MaxHalfHours, o \in -1..1}
    \cup {HalfDay * j + o : j \in 1..MaxHalfDays, o \in -1..1}
    \cup {HalfYear * j + o : j \in 1..MaxHalfYears, o \in -1..1}

InitEstimate ==
  /\ pc = "call"
  /\ arg \in EstimateInputs
  /\ ret = <<>>
  /\ Idle

CallEstimateCountTime ==
  /\ pc = "call"
  /\ ret' = estimate_count_time(arg)
  /\ pc' = "returned"
  /\ UNCHANGED <<user_text, brain, data, response, arg>>

NextEstimate == CallEstimateCountTime

SpecEstimate == InitEstimate /\ [][NextEstimate]_vars

-----------------------------------------------------------------------------
(* _eval on its own, on every tree of depth <= 2 over a few leaves *)

MaxLiteral == 2
MaxExponent == 8

GoodLeaves ==
  {Constant(PyInt(i)) : i \in 0..MaxLiteral} \cup {Constant(PyFloat(1, 2))}

\* leaves outside the closed set: a name, a string literal, a boolean literal
BadLeaves == {Name("x"), Constant(PyStr(<<"s">>)), Constant(PyBool(TRUE))}

Leaves == GoodLeaves \cup BadLeaves

TreeBinOps == ALLOWED_BINOPS \cup {"BitOr"}

TreeUnaryOps == ALLOWED_UNARY \cup {"Not"}

\* the other operand of a binary node whose one operand is a subtree
Siblings == {Constant(PyInt(0)), Constant(PyInt(2)), Constant(PyBool(TRUE))}

\* one more level over the trees of S: a node with one child in S, the other
\* (if any) a sibling leaf
Level(S) ==
  Leaves
    \cup {UnaryOp(o, a) : o \in TreeUnaryOps, a \in S}
    \cup {BinOp(a, o, b) : a \in S, o \in TreeBinOps, b \in Siblings}
    \cup {BinOp(a, o, b) : a \in Siblings, o \in TreeBinOps, b \in S}
    \cup {Call(Name("f"), <<a>>) : a \in S}
    \cup {Attribute(a, "real") : a \in S}
    \cup {Compare(a, "Lt", b) : a \in S, b \in Siblings}

\* the trees the arithmetic of the model covers: every ** whose operands
\* evaluate has a whole exponent of at most MaxExponent in magnitude
RECURSIVE WithinModel(_)
WithinModel(n) ==
  CASE n.t = "BinOp" ->
         /\ WithinModel(n.left)
         /\ WithinModel(n.right)
         /\ (n.op = "Pow" /\ _eval(n.left).k # "raise" /\ _eval(n.right).k # "raise")
              => (_eval(n.right).d = 1 /\ Abs(_eval(n.right).n) <= MaxExponent)
    [] n.t = "UnaryOp" -> WithinModel(n.operand)
    [] n.t = "Call" -> \A i \in DOMAIN n.args : WithinModel(n.args[i])
    [] n.t = "Attribute" -> WithinModel(n.value)
    [] n.t = "Compare" -> WithinModel(n.left) /\ WithinModel(n.comparators[1])
    [] OTHER -> TRUE

EvalInputs == {Expression(b) : b \in {n \in Level(Level(Leaves)) : WithinModel(n)}}

InitEval ==
  /\ pc = "call"
  /\ arg \in EvalInputs
  /\ ret = PyNone
  /\ Idle

CallEval ==
  /\ pc = "call"
  /\ ret' = _eval(arg)
  /\ pc' = "returned"
  /\ UNCHANGED <<user_text, brain, data, response, arg>>

NextEval == CallEval

SpecEval == InitEval /\ [][NextEval]_vars

-----------------------------------------------------------------------------
(* Properties *)

\* the _math_logic the classifier gave (empty when missing or null)
Given(d) == Or(get(d.m, "_math_logic"), PyDict(<<>>)).m

\* the intent the classifier gave, in upper case ("" when missing or null)
ClassifiedIntent(d) == Join(upper(Or(get(Given(d), "intent"), PyStr(<<>>))).s)

\* apply_math_logic has run on the classifier's answer
Reconciled == pc \in {"respond", "done"} /\ brain.k = "dict"

\* the _math_logic of the reconciled record
Logic == data.m["_math_logic"].m

\* the characters of a str value
Chars(v) == Join(v.s)

ApologyScreen == "I couldn't understand that math problem."

ApologyText == "I couldn't quite figure out that math problem, but we can try another one!"

\* the defaults of the optional _math_logic fields
FieldDefaults ==
  [target_number |-> PyNone, is_impossible |-> PyBool(FALSE), step_size |-> PyNone,
   unit |-> PyNone, sequence |-> PyList(<<>>), time_estimate_seconds |-> PyNone,
   time_estimate_text |-> PyNone, visual_aid |-> PyNone]

\* the value of field f the classifier gave, defaulted when missing
GivenOrDefault(f) == IF f \in DOMAIN Given(brain) THEN Given(brain)[f] ELSE FieldDefaults[f]

\* C1: for an intent that is neither CALCULATE nor COUNT (SMALL_TALK, an
\* unknown or missing intent) apply_math_logic returns a well-formed record:
\* text, screen and visual_aid are those of the input, the _math_logic
\* fields missing from the input are defaulted, and the caller gets a 200
\* response, not an error or an empty result.
C1_SmallTalkPassesThrough ==
  (Reconciled /\ ClassifiedIntent(brain) \notin {"CALCULATE", "COUNT"}) =>
    /\ data.k = "dict"
    /\ \A f \in {"text", "screen", "visual_aid"} : data.m[f] = brain.m[f]
    /\ "_math_logic" \in DOMAIN data.m
    /\ \A f \in DOMAIN FieldDefaults : f \in DOMAIN Logic /\ Logic[f] = GivenOrDefault(f)
    /\ pc = "done" => response.status_code = 200

\* the classifier's answer d with its four claimable fields replaced by c
WithClaims(d, c) ==
  LET kept == [f \in DOMAIN Given(d) \ DOMAIN Claimable |-> Given(d)[f]]
  IN  PyDict(Put(d.m, "_math_logic", PyDict(kept @@ c)))

AllClaims == {[f \in c |-> Claimable[f]] : c \in SUBSET DOMAIN Claimable}

\* C2: for CALCULATE and COUNT the reconciled record does not depend on the
\* step_size, sequence, time_estimate_seconds and time_estimate_text the
\* classifier supplied: an input that differs only in those four fields
\* reconciles to the same record, on the success and on the failure paths.
C2_ClassifierClaimsIgnored ==
  (pc = "respond" /\ ClassifiedIntent(brain) \in {"CALCULATE", "COUNT"}
     /\ "_math_logic" \in DOMAIN brain.m) =>
    \A c \in AllClaims : apply_math_logic(WithClaims(brain, c), user_text) = data

\* a node outside the closed set {numeric literal, binary op in
\* + - * / // % **, unary + or -} occurs somewhere in the tree
RECURSIVE HasForeignNode(_)
HasForeignNode(n) ==
  CASE n.t = "Expression" -> HasForeignNode(n.body)
    [] n.t = "Constant" -> n.value.k \notin {"int", "float"}
    [] n.t = "BinOp" ->
         \/ n.op \notin {"Add", "Sub", "Mult", "Div", "FloorDiv", "Mod", "Pow"}
         \/ HasForeignNode(n.left)
         \/ HasForeignNode(n.right)
    [] n.t = "UnaryOp" -> n.op \notin {"UAdd", "USub"} \/ HasForeignNode(n.operand)
    [] OTHER -> TRUE

\* C3: safe_eval_expression is an allow-list: a tree with a node outside the
\* closed set (a name, a call, an attribute access, a string literal, a
\* boolean literal, a comparison, another operator), wherever it occurs,
\* fails with an error and returns no value.
C3_AllowList ==
  (pc = "returned" /\ HasForeignNode(arg)) => ret.k = "raise"

\* the expression the classifier gave is missing, null, empty or whitespace
BlankExpression ==
  LET e == get(Given(brain), "expression")
  IN  e.k = "none" \/ \A i \in DOMAIN e.s : e.s[i] \in Whitespace

\* what safe_eval_expression gives on the trimmed expression
Evaluated == safe_eval_expression(strip(get(Given(brain), "expression")))

\* C4: for CALCULATE, when the expression is missing, empty or whitespace
\* only, or its evaluation fails (syntax error, unsupported construct,
\* division or modulo by zero), apply_math_logic raises nothing and returns
\* a record with is_impossible = True, sequence = [] and the two fixed
\* apology texts in screen and text.
C4_CalculateFailureApologises ==
  (Reconciled /\ ClassifiedIntent(brain) = "CALCULATE"
     /\ (BlankExpression \/ IsRaise(Evaluated))) =>
    /\ data.k = "dict"
    /\ Logic.is_impossible = PyBool(TRUE)
    /\ Logic.sequence = PyList(<<>>)
    /\ Chars(data.m.screen) = ApologyScreen
    /\ Chars(data.m.text) = ApologyText

\* a division by zero behind leading whitespace ended in the apology
C4_Witness ==
  /\ pc = "respond"
  /\ ClassifiedIntent(brain) = "CALCULATE"
  /\ get(Given(brain), "expression") = PyStr(<<"\t", "5 / 0">>)
  /\ Evaluated = Raise("ZeroDivisionError")
  /\ data.k = "dict"
  /\ Chars(data.m.text) = ApologyText
  /\ Logic.is_impossible = PyBool(TRUE)

\* r coerced to an integer when it is a whole-number-valued float
Coerced(r) == IF r.k = "float" /\ r.d = 1 THEN PyInt(r.n) ELSE r

\* the spoken problem: the classifier's, or the user's text when missing,
\* null or empty; trimmed of surrounding whitespace
SpokenProblem ==
  LET s == get(Given(brain), "spoken_problem")
  IN  Chars(strip(IF s.k = "none" \/ s.s = <<>> THEN user_text ELSE s))

\* C5: for CALCULATE with an expression that evaluates to r, the reconciled
\* record has target_number = r', sequence = [r'] and is_impossible = False,
\* r' being r coerced to an integer when r is a whole-number-valued float
\* ("900 + 500 / 2" gives the integer 1150), whatever the classifier
\* supplied in those fields; text is "You asked what {spoken problem} is.
\* The answer is {screen}.", the spoken problem (trimmed) defaulting to the
\* user's text.
C5_CalculateSuccess ==
  (Reconciled /\ ClassifiedIntent(brain) = "CALCULATE"
     /\ ~BlankExpression /\ ~IsRaise(Evaluated)) =>
    /\ data.k = "dict"
    /\ Logic.target_number = Coerced(Evaluated)
    /\ Logic.sequence = PyList(<<Coerced(Evaluated)>>)
    /\ Logic.is_impossible = PyBool(FALSE)
    /\ Chars(data.m.text) =
         "You asked what " \o SpokenProblem \o " is. The answer is "
           \o Chars(data.m.screen) \o "."
    /\ get(Given(brain), "expression") = MkStr("900 + 500 / 2") =>
         (Logic.target_number = PyInt(1150) /\ Chars(data.m.screen) = "1,150")
    /\ get(Given(brain), "expression") = MkStr("12 * 3 - 4") =>
         Logic.target_number = PyInt(32)

\* "900 + 500 / 2" replaced a target of 5 and an is_impossible of True
C5_Witness ==
  /\ pc = "respond"
  /\ ClassifiedIntent(brain) = "CALCULATE"
  /\ get(Given(brain), "expression") = MkStr("900 + 500 / 2")
  /\ get(Given(brain), "target_number") = PyInt(5)
  /\ get(Given(brain), "is_impossible") = PyBool(TRUE)
  /\ get(Given(brain), "sequence") = Claimable.sequence
  /\ get(Given(brain), "spoken_problem") = PyNone
  /\ Logic.target_number = PyInt(1150)
  /\ Logic.sequence = PyList(<<PyInt(1150)>>)
  /\ Chars(data.m.text) =
       "You asked what what is two plus two is. The answer is 1,150."

\* no narration: impossible, nothing computed from the target
MarkedImpossible ==
  /\ data.k = "dict"
  /\ Logic.is_impossible = PyBool(TRUE)
  /\ Logic.sequence = PyList(<<>>)
  /\ data.m.screen = PyStr(<<>>)
  /\ data.m.text = brain.m.text
  /\ \A f \in {"step_size", "time_estimate_seconds", "time_estimate_text"} :
       Logic[f] = GivenOrDefault(f)

Target == get(Given(brain), "target_number")

\* the decimal spelling of an integer
IsDecimal(v) == \E i \in DecimalRange : ToString(i) = Chars(strip(v))

\* C6 as stated: a COUNT target that is missing, non-numeric, fractional
\* (such as 47.9) or <= 0 is marked impossible without narration.
C6_AsStated ==
  (Reconciled /\ ClassifiedIntent(brain) = "COUNT"
     /\ \/ Target.k \in {"none", "list"}
        \/ Target.k = "str" /\ ~IsDecimal(Target)
        \/ Target.k = "float" /\ Target.d # 1
        \/ Target.k \in {"int", "float"} /\ Target.n <= 0) =>
    MarkedImpossible

\* C6 (amended): a COUNT target that is missing, that int() cannot convert
\* (null, a non-numeric string, a list) or that is a number below 1 (its
\* truncation toward zero is <= 0) is marked impossible without narration:
\* is_impossible = True, sequence = [], screen = "", text as received, and
\* step_size and the time estimate left as received.  A fractional target of
\* 1 or more is not rejected: 47.9 is truncated to 47 and counted.
C6_UnusableTargetImpossible ==
  /\ (Reconciled /\ ClassifiedIntent(brain) = "COUNT"
        /\ \/ Target.k \in {"none", "list"}
           \/ Target.k = "str" /\ ~IsDecimal(Target)
           \/ Target.k \in {"bool", "int", "float"} /\ Target.n < Target.d) =>
       MarkedImpossible
  /\ (Reconciled /\ ClassifiedIntent(brain) = "COUNT" /\ Target = PyFloat(479, 10)) =>
       /\ data.k = "dict"
       /\ Logic.target_number = PyInt(47)
       /\ Logic.is_impossible = PyBool(FALSE)
       /\ Logic.step_size = PyInt(4)

\* a target of 0.5 was marked impossible and the claimed step_size kept
C6_Witness ==
  /\ pc = "respond"
  /\ ClassifiedIntent(brain) = "COUNT"
  /\ Target = PyFloat(1, 2)
  /\ get(Given(brain), "step_size") = PyInt(7)
  /\ MarkedImpossible
  /\ Logic.step_size = PyInt(7)

\* the numbers of a jump sequence as the screen shows them
Shown(n, seq) == [i \in DOMAIN seq |-> IF n <= 10 THEN ToString(seq[i]) ELSE Grouped(seq[i])]

\* the narration of a count to n over the shown numbers and the time text
Narration(n, shown, timeText) ==
  LET unit == GivenOrDefault("unit")
      intro == IF unit.k = "str" /\ unit.s # <<>>
                 THEN "Let's jump up to " \o Grouped(n) \o " " \o Chars(unit)
                        \o (IF n = 1 THEN "" ELSE "s") \o "."
                 ELSE "Let's jump up to " \o Grouped(n) \o "."
  IN  intro \o " Our ten jumps are: " \o JoinWith(", ", shown) \o "."
        \o " If you counted by ones, it would take " \o timeText \o "."

\* C7: for COUNT with an integer target n >= 1 the reconciled record has
\* target_number = n, (step_size, sequence, is_impossible) =
\* build_count_sequence(n) and (time_estimate_seconds, time_estimate_text) =
\* estimate_count_time(n), whatever the classifier supplied; screen is the
\* comma-joined sequence and text lists that sequence and that time text
\* (n = 47: step 4, sequence 4, 8, ..., 36, 47).
C7_CountSuccess ==
  (Reconciled /\ ClassifiedIntent(brain) = "COUNT" /\ Target.k = "int" /\ Target.n >= 1) =>
    LET n == Target.n
        plan == build_count_sequence(n)
        estimate == estimate_count_time(n)
    IN  /\ data.k = "dict"
        /\ Logic.target_number = PyInt(n)
        /\ Logic.step_size = PyInt(plan[1])
        /\ Logic.sequence = PyList([i \in DOMAIN plan[2] |-> PyInt(plan[2][i])])
        /\ Logic.is_impossible = PyBool(plan[3])
        /\ Logic.time_estimate_seconds = PyInt(estimate[1])
        /\ Logic.time_estimate_text = MkStr(estimate[2])
        /\ Chars(data.m.screen) = JoinWith(", ", Shown(n, plan[2]))
        /\ Chars(data.m.text) = Narration(n, Shown(n, plan[2]), estimate[2])
        /\ n = 47 =>
             /\ Logic.step_size = PyInt(4)
             /\ Chars(data.m.screen) = "4, 8, 12, 16, 20, 24, 28, 32, 36, 47"
             /\ Logic.time_estimate_text = MkStr("about 47 seconds")

\* a count to 47 replaced all four values the classifier had claimed
C7_Witness ==
  /\ pc = "respond"
  /\ ClassifiedIntent(brain) = "COUNT"
  /\ Target = PyInt(47)
  /\ \A f \in DOMAIN Claimable : get(Given(brain), f) = Claimable[f]
  /\ Logic.step_size = PyInt(4)
  /\ Logic.time_estimate_seconds = PyInt(47)
  /\ Chars(data.m.screen) = "4, 8, 12, 16, 20, 24, 28, 32, 36, 47"

\* C8: build_count_sequence(n) is (0, [], True) for n <= 0, (1, [1..n],
\* False) for 1 <= n <= 10, and for n > 10 step_size = max(n // 10, 1),
\* is_impossible = False, at most 10 elements, the last exactly n.
C8_PlanContract ==
  pc = "returned" =>
    LET n == arg
        step == ret[1]
        seq == ret[2]
    IN  /\ n <= 0 => ret = <<0, <<>>, TRUE>>
        /\ (1 <= n /\ n <= 10) =>
             /\ step = 1
             /\ Len(seq) = n
             /\ \A i \in 1..n : seq[i] = i
             /\ ret[3] = FALSE
        /\ n > 10 =>
             /\ \E q \in 1..n : q * 10 <= n /\ n < (q + 1) * 10 /\ step = q
             /\ ret[3] = FALSE
             /\ Len(seq) <= 10
             /\ seq[Len(seq)] = n

\* the plan of 47
C8_Witness ==
  /\ pc = "returned"
  /\ arg = 47
  /\ ret = <<4, <<4, 8, 12, 16, 20, 24, 28, 32, 36, 47>>, FALSE>>

\* the integer nearest to n/d, the upper one on a tie
RoundHalfUp(n, d) == (2 * n + d) \div (2 * d)

\* the integer nearest to n/d, the even one on a tie
RoundHalfEven(n, d) ==
  CHOOSE r \in {n \div d, n \div d + 1} :
    /\ 2 * Abs(n - r * d) <= d
    /\ 2 * Abs(n - r * d) = d => r % 2 = 0

\* the text of the first matching row of the table, for n below 2 years,
\* with the rounding R
TableText(n, R(_, _)) ==
  IF n <= 120 THEN "about " \o ToString(n) \o " seconds"
  ELSE IF n < 3600 THEN "about " \o ToString(R(n, 60)) \o " minutes"
  ELSE IF n < 172800 THEN "about " \o ToString(R(n, 3600)) \o " hours"
  ELSE "about " \o ToString(R(n, 86400)) \o " days"

TwoYears == 2 * 365 * 86400

\* C9 as stated: the displayed magnitude is rounded to the nearest integer,
\* a tie such as 2.5 going up to 3.
C9_AsStated ==
  (pc = "returned" /\ arg >= 1 /\ arg < TwoYears) =>
    ret = <<arg, TableText(arg, RoundHalfUp)>>

\* C9 (amended): for n >= 1 below 2 years estimate_count_time(n) returns
\* seconds = n and the text of the first matching row: "about n seconds"
\* for n <= 120, then minutes below 3600, hours below 172800, days below 2
\* years, the magnitude rounded to the nearest integer with a tie going to
\* the even neighbour (150 s = 2.5 min gives "about 2 minutes", 210 s = 3.5
\* min gives "about 4 minutes"); estimate(90) is "about 90 seconds" and
\* estimate(600) is "about 10 minutes".
C9_EstimateTable ==
  (pc = "returned" /\ arg >= 1 /\ arg < TwoYears) =>
    /\ ret = <<arg, TableText(arg, RoundHalfEven)>>
    /\ arg = 90 => ret[2] = "about 90 seconds"
    /\ arg = 600 => ret[2] = "about 10 minutes"
    /\ arg = 150 => ret[2] = "about 2 minutes"
    /\ arg = 210 => ret[2] = "about 4 minutes"

\* 150 seconds, a tie, came out as 2 minutes
C9_Witness ==
  /\ pc = "returned"
  /\ arg = 150
  /\ ret = <<150, "about 2 minutes">>

\* C10: for COUNT with an integer target n > 10 the sequence has exactly 10
\* elements, strictly increasing, each in 1..n, and the narration "Our ten
\* jumps are: ..." lists exactly those ten numbers.
C10_TenJumps ==
  (Reconciled /\ ClassifiedIntent(brain) = "COUNT" /\ Target.k = "int" /\ Target.n > 10) =>
    LET n == Target.n
        seq == Logic.sequence.v
    IN  /\ Len(seq) = 10
        /\ \A i \in 1..10 : seq[i].k = "int" /\ 1 <= seq[i].n /\ seq[i].n <= n
        /\ \A i \in 1..9 : seq[i].n < seq[i + 1].n
        /\ Chars(data.m.text) =
             Narration(n, [i \in 1..10 |-> Grouped(seq[i].n)],
                       Chars(Logic.time_estimate_text))

\* a count to 1,234,567 in ten jumps
C10_Witness ==
  /\ pc = "respond"
  /\ ClassifiedIntent(brain) = "COUNT"
  /\ Target = PyInt(1234567)
  /\ "unit" \notin DOMAIN Given(brain)
  /\ Len(Logic.sequence.v) = 10
  /\ Logic.sequence.v[9] = PyInt(1111104)
  /\ Logic.sequence.v[10] = PyInt(1234567)

====
